---------------------------- MODULE Spec2Model ----------------------------
(***************************************************************************)
(* A model of VLCYT's managers and the classes they stand on:              *)
(*   VLCYT/managers/thread_manager.py    (ManagedThread, ThreadManager)    *)
(*   VLCYT/core/vlc_player.py            (VLCPlayer)                       *)
(*   VLCYT/managers/playback_manager.py  (PlaybackManager)                 *)
(*   VLCYT/managers/streaming_manager.py (StreamingManager)                *)
(*   VLCYT/ui/components/playlist_tab.py (PlaylistTab), VLCYT/models.py    *)
(*   VLCYT/managers/settings_manager.py  (SettingsManager)                 *)
(* Each component has its own next-state relation and specification; the   *)
(* variables of the other components keep their initial values under it.   *)
(*                                                                         *)
(* ManagedThread handles are numbered in the order submit() creates them,  *)
(* futures in the order submit_task() creates them.  The task threads and  *)
(* the pool's workers run concurrently with the callers of the manager;    *)
(* the manager's operations exclude each other through its RLock, the      *)
(* task threads and a direct handle.cancel() take no lock.                 *)
(***************************************************************************)
EXTENDS Integers, Sequences, FiniteSets, TLC

\* ------------------------------------------------------------------ bounds
\* Number of handles submit() may create in a run.
MaxTasks == 1
\* Number of futures submit_task() may create in a run.
MaxFutures == 2
\* Largest max_threads the manager is constructed with.
MaxPool == 1

\* Number of client threads calling the manager's methods at once.
MaxCallers == 2
\* Number of calls on the player the streaming manager's run records.
MaxLog == 3
\* Number of player calls, and of signals, a playback manager's run records.
MaxCalls == 3
\* Length of the longest list handed to the history tab.
MaxGiven == 11
\* Number of signals a transcript manager's run records.
MaxEmitted == 5
\* Number of values hash() takes on the urls.
MaxHashes == 3
\* Number of items a playlist, or a playlist file, holds.
MaxItems == 3

Tasks == 1..MaxTasks
Futures == 1..MaxFutures
Callers == 1..MaxCallers

\* --------------------------------------------------------------- constants
\* wait_for_all(timeout=None): no limit.
NoTimeout == -1
\* time.sleep(0.1) of the polling loop, in tenths of a second.
SleepTenths == 1
\* shutdown()'s wait_for_all(timeout=2.0), in tenths of a second.
ShutdownTimeoutTenths == 20
\* StreamingManager's initial stream_port.
DefaultPort == 8080
\* "Keep only last 10 items", history_tab.py lines 324 and 352.
HistoryLimit == 10
\* The timeouts the callers of wait_for_all pass (None and 0).
WaitTimeouts == {NoTimeout, 0}

VARIABLES
    \* ManagedThread, per handle
    phase,          \* position of the handle's thread
    canceled,       \* _canceled
    completed,      \* _completed
    result,         \* _result: "None" or "value"
    exception,      \* _exception: "None" or "Exception"
    outcome,        \* how the callable ended: "none", "returned", "raised", "raised_base"
    \* ThreadManager
    max_threads,    \* _max_threads
    active_threads,         \* _active_threads
    futures,        \* _futures
    shutdown_flag,  \* _shutdown_flag
    lock,           \* owner of _lock across steps: "free" or "shutdown"
    raised,         \* what the latest submit()/submit_task() raised
    \* ThreadPoolExecutor
    fstate,         \* state of each future
    workQueue,      \* the executor's queue of work items
    executor_shutdown,  \* executor.shutdown() was called
    \* a caller inside wait_for_all()
    wpc, wTimeout, wElapsed, wEps, wResult,
    \* shutdown()'s own wait_for_all(timeout=2.0)
    sElapsed, sEps,
    \* the manager's RLock and the callers inside its methods, statement by
    \* statement
    cpc,            \* per caller: the method it is in and its next statement
    lock_owner,     \* RLock owner (0: unowned)
    lock_count,     \* RLock recursion level
    accessing,      \* callers in the middle of reading or writing _active_threads
    \* VLCPlayer
    VLC_AVAILABLE,  \* the module imported vlc
    instance,       \* _instance: "unconstructed", "None" or "obj"
    media_player,   \* _media_player: "None" or "obj"
    media,          \* _media: "None" or "obj"
    embed_handle,   \* _embed_handle: "None" or the widget passed
    streaming_disabled,     \* _streaming_disabled
    player_last,    \* the latest call of a VLCPlayer method and how it ended
    \* PlaybackManager
    is_playing,     \* _is_playing
    is_paused,      \* _is_paused
    current_video_info,     \* _current_video_info ("empty": {})
    player_calls,   \* the calls made on the VLC player, in order
    signals,        \* the signals emitted, in order
    playback_last,  \* the latest PlaybackManager method called, with its argument
    \* StreamingManager
    is_streaming_enabled,
    stream_port,
    stream_url,
    streaming_calls,        \* the calls made on the VLC player, in order
    streaming_last, \* the latest StreamingManager method called: name, argument, return value
    \* PlaylistTab
    playlist_items,
    current_playlist_index,
    playlist_last,  \* the latest PlaylistTab handler run, the exception it let out
                    \* and the signals it emitted
    \* SettingsManager and the QSettings store behind it
    remember_position,      \* value stored under "playback/remember_position"
    video_positions,        \* group "video_positions": key -> position
    url_hash_map,   \* array "url_hash_map": entries with "url" and "hash"
    hash_of,        \* hash() of each url string in the running process
    stored,         \* per url, the position stored for it last (0: none)
    settings_last,  \* the latest SettingsManager call: name, url, return value
    \* HistoryTab
    recently_played,        \* the video dictionaries, latest first
    history_list,   \* the rows of the QListWidget
    history_last,   \* the latest HistoryTab method called, with its argument
    \* TranscriptManager
    current_video_id,
    current_transcript_entries,
    current_transcript_language,
    available_transcript_languages,
    transcript_signals,     \* the signals emitted, in order
    transcript_last \* the latest TranscriptManager method called and how it ended

managerVars == <<phase, canceled, completed, result, exception, outcome,
          max_threads, active_threads, futures, shutdown_flag, lock, raised,
          fstate, workQueue, executor_shutdown,
          wpc, wTimeout, wElapsed, wEps, wResult, sElapsed, sEps>>

handleVars == <<phase, canceled, completed, result, exception, outcome>>
poolVars == <<fstate, workQueue, executor_shutdown>>
waitVars == <<wpc, wTimeout, wElapsed, wEps, wResult>>
shutVars == <<sElapsed, sEps>>
rlockVars == <<cpc, lock_owner, lock_count, accessing>>
\* Everything outside the coarse model of the thread manager.
playerVars == <<VLC_AVAILABLE, instance, media_player, media, embed_handle,
                streaming_disabled, player_last>>
playbackVars == <<is_playing, is_paused, current_video_info, player_calls,
                  signals, playback_last>>
streamingVars == <<is_streaming_enabled, stream_port, stream_url,
                   streaming_calls, streaming_last>>
playlistVars == <<playlist_items, current_playlist_index, playlist_last>>
settingsVars == <<remember_position, video_positions, url_hash_map, hash_of,
                  stored, settings_last>>
historyVars == <<recently_played, history_list, history_last>>
transcriptVars == <<current_video_id, current_transcript_entries,
                    current_transcript_language, available_transcript_languages,
                    transcript_signals, transcript_last>>
appVars == <<rlockVars, playerVars, playbackVars, streamingVars, playlistVars,
             settingsVars, historyVars, transcriptVars>>
\* What the steps of one component leave alone.
outsideRLock == <<managerVars, playerVars, playbackVars, streamingVars, playlistVars,
    settingsVars, historyVars,
    transcriptVars>>
outsidePlayer == <<managerVars, rlockVars, playbackVars, streamingVars, playlistVars,
    settingsVars, historyVars,
    transcriptVars>>
outsidePlayback == <<managerVars, rlockVars, playerVars, streamingVars, playlistVars,
    settingsVars, historyVars,
    transcriptVars>>
outsideStreaming == <<managerVars, rlockVars, playerVars, playbackVars, playlistVars,
    settingsVars, historyVars,
    transcriptVars>>
outsidePlaylist == <<managerVars, rlockVars, playerVars, playbackVars, streamingVars,
    settingsVars, historyVars,
    transcriptVars>>
outsideSettings == <<managerVars, rlockVars, playerVars, playbackVars, streamingVars,
    playlistVars, historyVars,
    transcriptVars>>
outsideHistory == <<managerVars, rlockVars, playerVars, playbackVars, streamingVars,
    playlistVars, settingsVars,
    transcriptVars>>
outsideTranscript == <<managerVars, rlockVars, playerVars, playbackVars, streamingVars,
    playlistVars, settingsVars, historyVars>>

vars == <<managerVars, appVars>>

\* No client thread is inside a method of the manager; the RLock is unowned.
RLockInit ==
    /\ cpc = [c \in Callers |-> <<"idle", 0>>]
    /\ lock_owner = 0
    /\ lock_count = 0
    /\ accessing = {}

\* No VLCPlayer has been constructed yet.
PlayerInit ==
    /\ VLC_AVAILABLE = FALSE
    /\ instance = "unconstructed"
    /\ media_player = "None"
    /\ media = "None"
    /\ embed_handle = "None"
    /\ streaming_disabled = FALSE
    /\ player_last = [op |-> "none", no_player |-> FALSE, vlc_raised |-> FALSE,
                      ret |-> FALSE, escaped |-> FALSE]

\* ----------------------------------------------------------------- helpers
Range(s) == {s[i] : i \in 1..Len(s)}

\* The handle the next accepted submit() creates (0: the bound is used up).
NextTask == IF \E t \in Tasks : phase[t] = "unborn"
            THEN CHOOSE t \in Tasks : phase[t] = "unborn"
                                      /\ \A u \in Tasks : phase[u] = "unborn" => t <= u
            ELSE 0

NextFuture == IF \E f \in Futures : fstate[f] = "unborn"
              THEN CHOOSE f \in Futures : fstate[f] = "unborn"
                                          /\ \A g \in Futures : fstate[g] = "unborn" => f <= g
              ELSE 0

\* threading.Thread.is_alive(): from start() until run() has ended.
is_alive(t) == phase[t] \in {"started", "checked", "running", "exiting"}

\* The callable of handle t has begun executing.
Executed(t) == phase[t] = "running" \/ outcome[t] # "none"

\* ManagedThread.is_canceled / is_completed / get_result / get_exception
is_canceled(t) == canceled[t]
is_completed(t) == completed[t]
get_result(t) == result[t]
get_exception(t) == exception[t]

\* PlaybackManager.__init__, lines 59-64.
PlaybackInit ==
    /\ is_playing = FALSE
    /\ is_paused = FALSE
    /\ current_video_info = "empty"
    /\ player_calls = <<>>
    /\ signals = <<>>
    /\ playback_last = <<"none", 0>>

\* f"http://{self.stream_host}:{self.stream_port}/stream.mp3"
StreamUrl(port) == <<"http://", "stream_host", ":", port, "/stream.mp3">>

\* StreamingManager.__init__, lines 62-67.
StreamingInit ==
    /\ is_streaming_enabled = TRUE
    /\ stream_port = DefaultPort
    /\ stream_url = StreamUrl(DefaultPort)
    /\ streaming_calls = <<>>
    /\ streaming_last = <<"none", 0, FALSE>>

\* PlaylistTab.__init__, lines 165-166.
PlaylistInit ==
    /\ playlist_items = <<>>
    /\ current_playlist_index = -1
    /\ playlist_last = <<"none", "none", <<>> >>

\* The urls whose positions are kept.
Urls == {"u1", "u2"}
\* The values hash() takes; within one process different urls have different
\* hashes (64-bit collisions are left out).
HashFns == {h \in [Urls -> 1..MaxHashes] : \A u, w \in Urls : u # w => h[u] # h[w]}

\* The first start of the application: an empty store, in which
\* _initialize_default_settings (lines 107-108) sets remember_position.
SettingsInit ==
    /\ remember_position = TRUE
    /\ video_positions = <<>>
    /\ url_hash_map = <<>>
    /\ hash_of = CHOOSE h \in HashFns : TRUE
    /\ stored = [u \in Urls |-> 0]
    /\ settings_last = <<"none", "none", 0>>

\* HistoryTab.__init__, lines 156-166.
HistoryInit ==
    /\ recently_played = <<>>
    /\ history_list = <<>>
    /\ history_last = <<"none", "none">>

\* TranscriptManager.__init__, lines 128-138; thread_manager is the
\* application's ThreadManager (main_window.py line 322).
TranscriptInit ==
    /\ current_video_id = "None"
    /\ current_transcript_entries = <<>>
    /\ current_transcript_language = "None"
    /\ available_transcript_languages = <<>>
    /\ transcript_signals = <<>>
    /\ transcript_last = [op |-> "none", video_id |-> "None", raised |-> "None",
                          started |-> FALSE]

\* ------------------------------------------------------------------- Init
Init ==
    /\ phase = [t \in Tasks |-> "unborn"]
    /\ canceled = [t \in Tasks |-> FALSE]
    /\ completed = [t \in Tasks |-> FALSE]
    /\ result = [t \in Tasks |-> "None"]
    /\ exception = [t \in Tasks |-> "None"]
    /\ outcome = [t \in Tasks |-> "none"]
    /\ max_threads \in 1..MaxPool
    /\ active_threads = <<>>
    /\ futures = <<>>
    /\ shutdown_flag = FALSE
    /\ lock = "free"
    /\ raised = "none"
    /\ fstate = [f \in Futures |-> "unborn"]
    /\ workQueue = <<>>
    /\ executor_shutdown = FALSE
    /\ wpc = "idle"
    /\ wTimeout = NoTimeout
    /\ wElapsed = 0
    /\ wEps = FALSE
    /\ wResult = "none"
    /\ sElapsed = 0
    /\ sEps = FALSE
    /\ RLockInit
    /\ PlayerInit
    /\ PlaybackInit
    /\ StreamingInit
    /\ PlaylistInit
    /\ SettingsInit
    /\ HistoryInit
    /\ TranscriptInit


\* ---------------------------------------------------------- ManagedThread
\* run_check with the test of line 82 inverted.
run_check_TestInverted(t) ==
    /\ phase[t] = "started"
    /\ phase' = [phase EXCEPT ![t] = IF canceled[t] THEN "checked" ELSE "exiting"]
    /\ UNCHANGED <<canceled, completed, result, exception, outcome>>
    /\ UNCHANGED <<max_threads, active_threads, futures, shutdown_flag, lock, raised>>
    /\ UNCHANGED <<poolVars, waitVars, shutVars>>
    /\ UNCHANGED appVars

\* run(), line 82: a thread whose flag is already set returns without calling
\* the target; otherwise it goes on to the call.
run_check(t) ==
    /\ phase[t] = "started"
    /\ phase' = [phase EXCEPT ![t] = IF canceled[t] THEN "exiting" ELSE "checked"]
    /\ UNCHANGED <<canceled, completed, result, exception, outcome>>
    /\ UNCHANGED <<max_threads, active_threads, futures, shutdown_flag, lock, raised>>
    /\ UNCHANGED <<poolVars, waitVars, shutVars>>
    /\ UNCHANGED appVars

\* run(), line 87: the call of the target begins.
run_call(t) ==
    /\ phase[t] = "checked"
    /\ phase' = [phase EXCEPT ![t] = "running"]
    /\ UNCHANGED <<canceled, completed, result, exception, outcome>>
    /\ UNCHANGED <<max_threads, active_threads, futures, shutdown_flag, lock, raised>>
    /\ UNCHANGED <<poolVars, waitVars, shutVars>>
    /\ UNCHANGED appVars

\* The ways a callable ends: it returns, raises an Exception, or raises a
\* BaseException that is no Exception (SystemExit, KeyboardInterrupt).
Outcomes == {"returned", "raised", "raised_base"}

\* run_done with `_completed = True` moved into `finally`.
run_done_CompletedInFinally(t, o) ==
    /\ phase[t] = "running"
    /\ phase' = [phase EXCEPT ![t] = "exiting"]
    /\ outcome' = [outcome EXCEPT ![t] = o]
    /\ result' = [result EXCEPT ![t] = IF o = "returned" THEN "value" ELSE @]
    /\ completed' = [completed EXCEPT ![t] = TRUE]
    /\ exception' = [exception EXCEPT ![t] = IF o = "raised" THEN "Exception" ELSE @]
    /\ UNCHANGED canceled
    /\ UNCHANGED <<max_threads, active_threads, futures, shutdown_flag, lock, raised>>
    /\ UNCHANGED <<poolVars, waitVars, shutVars>>
    /\ UNCHANGED appVars

\* run_done with the `_completed = True` of line 88 left out.
run_done_CompletedNotSet(t, o) ==
    /\ phase[t] = "running"
    /\ phase' = [phase EXCEPT ![t] = "exiting"]
    /\ outcome' = [outcome EXCEPT ![t] = o]
    /\ result' = [result EXCEPT ![t] = IF o = "returned" THEN "value" ELSE @]
    /\ exception' = [exception EXCEPT ![t] = IF o = "raised" THEN "Exception" ELSE @]
    /\ UNCHANGED <<canceled, completed>>
    /\ UNCHANGED <<max_threads, active_threads, futures, shutdown_flag, lock, raised>>
    /\ UNCHANGED <<poolVars, waitVars, shutVars>>
    /\ UNCHANGED appVars

\* run(), lines 87-94: the target ends with outcome o.  A return stores the
\* result and sets _completed; `except Exception` stores an Exception; any
\* other BaseException passes through `finally` and leaves the handle as it was.
run_done(t, o) ==
    /\ phase[t] = "running"
    /\ phase' = [phase EXCEPT ![t] = "exiting"]
    /\ outcome' = [outcome EXCEPT ![t] = o]
    /\ result' = [result EXCEPT ![t] = IF o = "returned" THEN "value" ELSE @]
    /\ completed' = [completed EXCEPT ![t] = IF o = "returned" THEN TRUE ELSE @]
    /\ exception' = [exception EXCEPT ![t] = IF o = "raised" THEN "Exception" ELSE @]
    /\ UNCHANGED canceled
    /\ UNCHANGED <<max_threads, active_threads, futures, shutdown_flag, lock, raised>>
    /\ UNCHANGED <<poolVars, waitVars, shutVars>>
    /\ UNCHANGED appVars

\* The thread ends: is_alive() is false from here on.
run_exit(t) ==
    /\ phase[t] = "exiting"
    /\ phase' = [phase EXCEPT ![t] = "dead"]
    /\ UNCHANGED <<canceled, completed, result, exception, outcome>>
    /\ UNCHANGED <<max_threads, active_threads, futures, shutdown_flag, lock, raised>>
    /\ UNCHANGED <<poolVars, waitVars, shutVars>>
    /\ UNCHANGED appVars

\* cancel()'s return value: True when the thread is not alive.
CancelReturns(t) == ~is_alive(t)

\* cancel that also ends a running callable (a forced stop).
cancel_StopsRunning(t) ==
    /\ phase[t] # "unborn"
    /\ canceled' = [canceled EXCEPT ![t] = TRUE]
    /\ phase' = [phase EXCEPT ![t] = IF @ = "running" THEN "exiting" ELSE @]
    /\ UNCHANGED <<completed, result, exception, outcome>>
    /\ UNCHANGED <<max_threads, active_threads, futures, shutdown_flag, lock, raised>>
    /\ UNCHANGED <<poolVars, waitVars, shutVars>>
    /\ UNCHANGED appVars

\* cancel() called on a handle by whoever holds it (submit() returned it, so
\* the thread has been started).  Both branches set the flag.
cancel(t) ==
    /\ phase[t] # "unborn"
    /\ canceled' = [canceled EXCEPT ![t] = TRUE]
    /\ UNCHANGED <<phase, completed, result, exception, outcome>>
    /\ UNCHANGED <<max_threads, active_threads, futures, shutdown_flag, lock, raised>>
    /\ UNCHANGED <<poolVars, waitVars, shutVars>>
    /\ UNCHANGED appVars

\* ---------------------------------------------------------- ThreadManager
\* _clean_completed_threads: keep the handles that are alive and not canceled.
KeepInRegistry(t) == is_alive(t) /\ ~is_canceled(t)

\* The filter is taken in one step: each handle's test reads that handle alone,
\* so a thread step in between is a step before or after the whole filter.
clean_completed_threads(reg) == SelectSeq(reg, KeepInRegistry)

\* submit without the _shutdown_flag test of lines 187-188.
submit_NoShutdownTest ==
    /\ lock = "free"
    /\ NextTask # 0
    /\ active_threads' = Append(clean_completed_threads(active_threads), NextTask)
    /\ phase' = [phase EXCEPT ![NextTask] = "started"]
    /\ raised' = "none"
    /\ UNCHANGED <<canceled, completed, result, exception, outcome>>
    /\ UNCHANGED <<max_threads, futures, shutdown_flag, lock>>
    /\ UNCHANGED <<poolVars, waitVars, shutVars>>
    /\ UNCHANGED appVars

\* submit(): clean the registry, refuse when shut down, else create the
\* handle, register it and start its thread.
submit ==
    /\ lock = "free"
    /\ shutdown_flag \/ NextTask # 0
    /\ IF shutdown_flag
       THEN /\ active_threads' = clean_completed_threads(active_threads)
            /\ raised' = "RuntimeError"
            /\ UNCHANGED phase
       ELSE /\ active_threads' = Append(clean_completed_threads(active_threads), NextTask)
            /\ phase' = [phase EXCEPT ![NextTask] = "started"]
            /\ raised' = "none"
    /\ UNCHANGED <<canceled, completed, result, exception, outcome>>
    /\ UNCHANGED <<max_threads, futures, shutdown_flag, lock>>
    /\ UNCHANGED <<poolVars, waitVars, shutVars>>
    /\ UNCHANGED appVars

\* submit_task(): refuse when shut down, else hand the callable to the
\* executor and keep the future.
submit_task ==
    /\ lock = "free"
    /\ shutdown_flag \/ NextFuture # 0
    /\ IF shutdown_flag
       THEN /\ raised' = "RuntimeError"
            /\ UNCHANGED <<futures, fstate, workQueue>>
       ELSE /\ fstate' = [fstate EXCEPT ![NextFuture] = "PENDING"]
            /\ workQueue' = Append(workQueue, NextFuture)
            /\ futures' = Append(futures, NextFuture)
            /\ raised' = "none"
    /\ UNCHANGED handleVars
    /\ UNCHANGED <<max_threads, active_threads, shutdown_flag, lock, executor_shutdown>>
    /\ UNCHANGED <<waitVars, shutVars>>
    /\ UNCHANGED appVars

\* cancel() setting the flag only on its not-started branch (line 105),
\* without line 109.
CancelThreads_OnlyNotAlive(reg) ==
    [t \in Tasks |-> IF t \in Range(reg) /\ ~is_alive(t) THEN TRUE ELSE canceled[t]]

\* cancel_all_threads(), first loop: thread.cancel() on every registered handle.
CancelThreads(reg) == [t \in Tasks |-> IF t \in Range(reg) THEN TRUE ELSE canceled[t]]

\* cancel_all_threads(), second loop: Future.cancel() cancels a pending future
\* and leaves a running or finished one alone.
CancelFutures(futs) ==
    [f \in Futures |-> IF f \in Range(futs) /\ fstate[f] = "PENDING"
                       THEN "CANCELLED" ELSE fstate[f]]

cancel_all_threads ==
    /\ lock = "free"
    /\ canceled' = CancelThreads(active_threads)
    /\ fstate' = CancelFutures(futures)
    /\ UNCHANGED <<phase, completed, result, exception, outcome>>
    /\ UNCHANGED <<max_threads, active_threads, futures, shutdown_flag, lock, raised>>
    /\ UNCHANGED <<workQueue, executor_shutdown, waitVars, shutVars>>
    /\ UNCHANGED appVars

\* wait_for_all, line 250: `timeout is not None and time.time() - start_time >
\* timeout`.  elapsed counts whole tenths of a second; eps says that the clock
\* has moved on since that count (two readings of time.time() may be equal).
TimedOut(elapsed, eps, timeout) ==
    /\ timeout # NoTimeout
    /\ \/ elapsed > timeout
       \/ elapsed = timeout /\ eps

\* wait_for_all(timeout) is entered: start_time is taken.
wait_for_all_call(tmo) ==
    /\ wpc = "idle"
    /\ wpc' = "loop"
    /\ wTimeout' = tmo
    /\ wElapsed' = 0
    /\ wEps' \in IF tmo = NoTimeout THEN {FALSE} ELSE BOOLEAN
    /\ wResult' = "none"
    /\ UNCHANGED handleVars
    /\ UNCHANGED <<max_threads, active_threads, futures, shutdown_flag, lock, raised>>
    /\ UNCHANGED <<poolVars, shutVars>>
    /\ UNCHANGED appVars

\* wait_for_all, lines 250-251: the timeout has passed, return False.
wait_for_all_timeout ==
    /\ wpc = "loop"
    /\ TimedOut(wElapsed, wEps, wTimeout)
    /\ wpc' = "idle"
    /\ wResult' = "False"
    /\ wTimeout' = NoTimeout
    /\ wElapsed' = 0
    /\ wEps' = FALSE
    /\ UNCHANGED handleVars
    /\ UNCHANGED <<max_threads, active_threads, futures, shutdown_flag, lock, raised>>
    /\ UNCHANGED <<poolVars, shutVars>>
    /\ UNCHANGED appVars

\* wait_for_all, lines 253-259: under the lock clean the registry and return
\* True when it is empty; otherwise sleep and go round again.
wait_for_all_poll ==
    /\ wpc = "loop"
    /\ ~TimedOut(wElapsed, wEps, wTimeout)
    /\ lock = "free"
    /\ active_threads' = clean_completed_threads(active_threads)
    /\ IF active_threads' = <<>>
       THEN /\ wpc' = "idle"
            /\ wResult' = "True"
            /\ wTimeout' = NoTimeout
            /\ wElapsed' = 0
            /\ wEps' = FALSE
       ELSE /\ wElapsed' = IF wTimeout = NoTimeout THEN wElapsed
                           ELSE wElapsed + SleepTenths
            /\ wEps' = (wTimeout # NoTimeout)
            /\ UNCHANGED <<wpc, wTimeout, wResult>>
    /\ UNCHANGED handleVars
    /\ UNCHANGED <<max_threads, futures, shutdown_flag, lock, raised>>
    /\ UNCHANGED <<poolVars, shutVars>>
    /\ UNCHANGED appVars

\* shutdown() without its call of cancel_all_threads() (line 267).
shutdown_begin_NoCancel ==
    /\ lock = "free"
    /\ lock' = "shutdown"
    /\ shutdown_flag' = TRUE
    /\ sElapsed' = 0
    /\ sEps' \in BOOLEAN
    /\ UNCHANGED <<phase, canceled, completed, result, exception, outcome>>
    /\ UNCHANGED <<max_threads, active_threads, futures, raised>>
    /\ UNCHANGED <<fstate, workQueue, executor_shutdown, waitVars>>
    /\ UNCHANGED appVars

\* shutdown(), lines 263-270: take the lock, set the flag, cancel everything,
\* enter wait_for_all(timeout=2.0).  The lock stays held until shutdown ends.
shutdown_begin ==
    /\ lock = "free"
    /\ lock' = "shutdown"
    /\ shutdown_flag' = TRUE
    /\ canceled' = CancelThreads(active_threads)
    /\ fstate' = CancelFutures(futures)
    /\ sElapsed' = 0
    /\ sEps' \in BOOLEAN
    /\ UNCHANGED <<phase, completed, result, exception, outcome>>
    /\ UNCHANGED <<max_threads, active_threads, futures, raised>>
    /\ UNCHANGED <<workQueue, executor_shutdown, waitVars>>
    /\ UNCHANGED appVars

\* shutdown(), lines 270-277: one round of its wait_for_all; when that
\* returns (True or False), shut the executor down without waiting, clear
\* the registry and the futures and release the lock.
shutdown_wait ==
    /\ lock = "shutdown"
    /\ IF \/ TimedOut(sElapsed, sEps, ShutdownTimeoutTenths)
          \/ clean_completed_threads(active_threads) = <<>>
       THEN /\ executor_shutdown' = TRUE
            /\ active_threads' = <<>>
            /\ futures' = <<>>
            /\ lock' = "free"
            /\ sElapsed' = 0
            /\ sEps' = FALSE
       ELSE /\ active_threads' = clean_completed_threads(active_threads)
            /\ sElapsed' = sElapsed + SleepTenths
            /\ sEps' = TRUE
            /\ UNCHANGED <<executor_shutdown, futures, lock>>
    /\ UNCHANGED handleVars
    /\ UNCHANGED <<max_threads, shutdown_flag, raised>>
    /\ UNCHANGED <<fstate, workQueue, waitVars>>
    /\ UNCHANGED appVars

\* ----------------------------------------------------- ThreadPoolExecutor
RunningFutures == {f \in Futures : fstate[f] = "RUNNING"}

\* A free worker takes the next work item: a cancelled future is dropped, any
\* other starts running.  At most max_workers = max_threads workers exist.
\* Items queued before executor.shutdown(wait=False) are still taken.
WorkerTake ==
    /\ workQueue # <<>>
    /\ Cardinality(RunningFutures) < max_threads
    /\ workQueue' = Tail(workQueue)
    /\ fstate' = [fstate EXCEPT ![Head(workQueue)] =
                     IF @ = "CANCELLED" THEN @ ELSE "RUNNING"]
    /\ UNCHANGED handleVars
    /\ UNCHANGED <<max_threads, active_threads, futures, shutdown_flag, lock, raised>>
    /\ UNCHANGED <<executor_shutdown, waitVars, shutVars>>
    /\ UNCHANGED appVars

\* The callable of a running future ends; the future is finished.
FutureDone(f) ==
    /\ fstate[f] = "RUNNING"
    /\ fstate' = [fstate EXCEPT ![f] = "FINISHED"]
    /\ UNCHANGED handleVars
    /\ UNCHANGED <<max_threads, active_threads, futures, shutdown_flag, lock, raised>>
    /\ UNCHANGED <<workQueue, executor_shutdown, waitVars, shutVars>>
    /\ UNCHANGED appVars

\* ------------------------------------------------------------------- Next
ThreadStep(t) ==
    \/ run_check(t)
    \/ run_call(t)
    \/ \E o \in Outcomes : run_done(t, o)
    \/ run_exit(t)

Next ==
    \/ submit
    \/ submit_task
    \/ cancel_all_threads
    \/ \E t \in Tasks : cancel(t)
    \/ \E tmo \in WaitTimeouts : wait_for_all_call(tmo)
    \/ wait_for_all_timeout
    \/ wait_for_all_poll
    \/ shutdown_begin
    \/ shutdown_wait
    \/ \E t \in Tasks : ThreadStep(t)
    \/ WorkerTake
    \/ \E f \in Futures : FutureDone(f)

Spec == Init /\ [][Next]_vars

\* The manager used through submit() alone.  The handles and the futures share
\* no state (cancel_all_threads and shutdown treat the two lists separately),
\* so this is the full specification seen through the handles and the registry.
HandleNext ==
    \/ submit
    \/ cancel_all_threads
    \/ \E t \in Tasks : cancel(t)
    \/ \E tmo \in WaitTimeouts : wait_for_all_call(tmo)
    \/ wait_for_all_timeout
    \/ wait_for_all_poll
    \/ shutdown_begin
    \/ shutdown_wait
    \/ \E t \in Tasks : ThreadStep(t)

HandleSpec == Init /\ [][HandleNext]_vars

HandleLiveSpec ==
    /\ HandleSpec
    /\ \A t \in Tasks : WF_vars(ThreadStep(t))
    /\ WF_vars(shutdown_wait)

\* The interpreter schedules every live thread, the pool's workers take queued
\* work, and a caller inside shutdown() keeps running.
LiveSpec ==
    /\ Spec
    /\ \A t \in Tasks : WF_vars(ThreadStep(t))
    /\ WF_vars(WorkerTake)
    /\ \A f \in Futures : WF_vars(FutureDone(f))
    /\ WF_vars(shutdown_wait)


\* ------------------------------------------- the RLock, statement by statement
\* The four methods that touch _active_threads as the statements a calling
\* thread executes, calls of the manager's own methods inlined.  A statement
\* is "acquire" (entering `with self._lock`), "release" (leaving it, also by
\* return or raise), "access" (reads or writes _active_threads) or "other";
\* next is the set of statements that may follow (0: the method returns).
Stmt(k, n) == [kind |-> k, next |-> n]

\* wait_for_all() with the block of lines 254-256 outside `with self._lock`.
wait_for_all_code_NoLock ==
    << Stmt("other", {0, 2}),
       Stmt("acquire", {3}),
       Stmt("access", {4}),
       Stmt("release", {5}),
       Stmt("access", {0, 6}),
       Stmt("other", {1}) >>

\* submit(), lines 183-194, with _clean_completed_threads (221-225) inlined.
submit_code ==
    << Stmt("acquire", {2}),          \* 183
       Stmt("acquire", {3}),          \* 185 -> 221
       Stmt("access", {4}),           \* 223-225
       Stmt("release", {5}),          \* 225, end of with
       Stmt("other", {6, 7}),         \* 187
       Stmt("other", {9}),            \* 188 raise
       Stmt("access", {8}),           \* 190-191
       Stmt("other", {9}),            \* 192
       Stmt("release", {0}) >>        \* 194 / the raise leaves the with

\* cancel_all_threads(), lines 229-234.
cancel_all_threads_code ==
    << Stmt("acquire", {2}),          \* 229
       Stmt("access", {3}),           \* 230-231
       Stmt("other", {4}),            \* 233-234
       Stmt("release", {0}) >>

\* wait_for_all(), lines 246-259.
wait_for_all_code ==
    << Stmt("other", {0, 2}),         \* 250-251
       Stmt("acquire", {3}),          \* 253
       Stmt("acquire", {4}),          \* 254 -> 221
       Stmt("access", {5}),           \* 223-225
       Stmt("release", {6}),          \* 225, end of with
       Stmt("access", {7, 8}),        \* 255
       Stmt("release", {0}),          \* 256 return True leaves the with
       Stmt("release", {9}),          \* end of with, registry not empty
       Stmt("other", {1}) >>          \* 259

\* shutdown(), lines 263-277, with cancel_all_threads and wait_for_all inlined.
shutdown_code ==
    << Stmt("acquire", {2}),          \* 263
       Stmt("other", {3}),            \* 264
       Stmt("acquire", {4}),          \* 267 -> 229
       Stmt("access", {5}),           \* 230-231
       Stmt("other", {6}),            \* 233-234
       Stmt("release", {7}),          \* end of with
       Stmt("other", {8, 16}),        \* 270 -> 250-251
       Stmt("acquire", {9}),          \* 253
       Stmt("acquire", {10}),         \* 254 -> 221
       Stmt("access", {11}),          \* 223-225
       Stmt("release", {12}),         \* 225, end of with
       Stmt("access", {13, 14}),      \* 255
       Stmt("release", {16}),         \* 256 return True leaves the with
       Stmt("release", {15}),         \* end of with, registry not empty
       Stmt("other", {7}),            \* 259
       Stmt("other", {17}),           \* 273
       Stmt("access", {18}),          \* 276-277
       Stmt("release", {0}) >>        \* end of with

Methods == {"submit", "cancel_all_threads", "wait_for_all", "shutdown"}

Code(m) ==
    CASE m = "submit" -> submit_code
      [] m = "cancel_all_threads" -> cancel_all_threads_code
      [] m = "wait_for_all" -> wait_for_all_code
      [] m = "shutdown" -> shutdown_code

InMethod(c) == cpc[c][1] # "idle"
Current(c) == Code(cpc[c][1])[cpc[c][2]]
Goto(c, n) ==
    cpc' = [cpc EXCEPT ![c] = IF n = 0 THEN <<"idle", 0>> ELSE <<cpc[c][1], n>>]

\* A client thread calls one of the methods.
call(c, m) ==
    /\ ~InMethod(c)
    /\ cpc' = [cpc EXCEPT ![c] = <<m, 1>>]
    /\ UNCHANGED <<lock_owner, lock_count, accessing>>
    /\ UNCHANGED outsideRLock

\* RLock.acquire(): granted when unowned or owned by the caller itself.
acquire(c) ==
    /\ InMethod(c)
    /\ Current(c).kind = "acquire"
    /\ lock_owner \in {0, c}
    /\ lock_owner' = c
    /\ lock_count' = lock_count + 1
    /\ \E n \in Current(c).next : Goto(c, n)
    /\ UNCHANGED accessing
    /\ UNCHANGED outsideRLock

\* RLock.release(): one level; the lock is unowned at level 0.
release(c) ==
    /\ InMethod(c)
    /\ Current(c).kind = "release"
    /\ lock_owner = c
    /\ lock_count' = lock_count - 1
    /\ lock_owner' = IF lock_count = 1 THEN 0 ELSE c
    /\ \E n \in Current(c).next : Goto(c, n)
    /\ UNCHANGED accessing
    /\ UNCHANGED outsideRLock

\* The caller starts, and later ends, a statement that reads or writes
\* _active_threads.
access_begin(c) ==
    /\ InMethod(c)
    /\ Current(c).kind = "access"
    /\ c \notin accessing
    /\ accessing' = accessing \cup {c}
    /\ UNCHANGED <<cpc, lock_owner, lock_count>>
    /\ UNCHANGED outsideRLock

access_end(c) ==
    /\ c \in accessing
    /\ accessing' = accessing \ {c}
    /\ \E n \in Current(c).next : Goto(c, n)
    /\ UNCHANGED <<lock_owner, lock_count>>
    /\ UNCHANGED outsideRLock

\* Any other statement; a test goes either way.
statement(c) ==
    /\ InMethod(c)
    /\ Current(c).kind = "other"
    /\ \E n \in Current(c).next : Goto(c, n)
    /\ UNCHANGED <<lock_owner, lock_count, accessing>>
    /\ UNCHANGED outsideRLock

RLockNext ==
    \/ \E c \in Callers, m \in Methods : call(c, m)
    \/ \E c \in Callers : acquire(c)
    \/ \E c \in Callers : release(c)
    \/ \E c \in Callers : access_begin(c)
    \/ \E c \in Callers : access_end(c)
    \/ \E c \in Callers : statement(c)

RLockSpec == Init /\ [][RLockNext]_vars

\* ---------------------------------------------------------------- VLCPlayer
\* How a call into python-vlc ends.
VlcOutcomes == {"ok", "raises"}
\* Values python-vlc's getters hand back (-1: nothing available).
VlcInts == {-1, 50, 101}

\* `not VLC_AVAILABLE or not self._media_player`, the test every method but
\* setup_streaming starts with.
NoPlayer == ~VLC_AVAILABLE \/ media_player = "None"

\* The method op has returned r; v is how its call into VLC ended ("none": it
\* made no call).  Nothing propagates to the caller.
Returned(op, v, r) ==
    player_last' = [op |-> op, no_player |-> NoPlayer, vlc_raised |-> v = "raises",
                    ret |-> r, escaped |-> FALSE]

\* max(lo, min(hi, x))
clamp(lo, hi, x) == IF x < lo THEN lo ELSE IF x > hi THEN hi ELSE x

\* Importing the module and __init__, lines 11-17 and 38-67.  ok: vlc.Instance
\* and media_player_new succeeded.
VLCPlayer_init(avail, ok) ==
    /\ instance = "unconstructed"
    /\ VLC_AVAILABLE' = avail
    /\ IF avail /\ ok
       THEN /\ instance' = "obj"
            /\ media_player' = "obj"
            /\ streaming_disabled' = FALSE
       ELSE /\ instance' \in (IF avail THEN {"None", "obj"} ELSE {"None"})
            /\ media_player' = "None"
            /\ streaming_disabled' = TRUE
    /\ UNCHANGED <<media, embed_handle, player_last>>
    /\ UNCHANGED outsidePlayer

\* setup_embedding(widget), lines 79-105.  w is the kind of the argument.
setup_embedding(w, v) ==
    /\ instance # "unconstructed"
    /\ IF NoPlayer
       THEN Returned("setup_embedding", "none", FALSE) /\ UNCHANGED embed_handle
       ELSE IF w \in {"QWidget", "int"}
            THEN IF v = "ok"
                 THEN Returned("setup_embedding", v, TRUE) /\ embed_handle' = w
                 ELSE Returned("setup_embedding", v, FALSE) /\ UNCHANGED embed_handle
            ELSE Returned("setup_embedding", "none", FALSE) /\ UNCHANGED embed_handle
    /\ UNCHANGED <<VLC_AVAILABLE, instance, media_player, media, streaming_disabled>>
    /\ UNCHANGED outsidePlayer

\* play(url), lines 117-132.  has_url: the argument is a non-empty string;
\* started: libvlc's play() returned 0.  A raise may come before or after
\* _media was assigned (line 123).
play(has_url, v, started) ==
    /\ instance # "unconstructed"
    /\ IF NoPlayer
       THEN Returned("play", "none", FALSE) /\ UNCHANGED media
       ELSE IF v = "ok"
            THEN /\ Returned("play", v, started)
                 /\ media' = IF has_url THEN "obj" ELSE media
            ELSE /\ Returned("play", v, FALSE)
                 /\ media' \in (IF has_url THEN {media, "obj"} ELSE {media})
    /\ UNCHANGED <<VLC_AVAILABLE, instance, media_player, embed_handle, streaming_disabled>>
    /\ UNCHANGED outsidePlayer

\* The five methods with their call into VLC outside the try block.
Command_CallOutsideTry(op, v) ==
    /\ instance # "unconstructed"
    /\ IF NoPlayer
       THEN Returned(op, "none", FALSE)
       ELSE player_last' = [op |-> op, no_player |-> FALSE,
                            vlc_raised |-> v = "raises", ret |-> v = "ok",
                            escaped |-> v = "raises"]
    /\ UNCHANGED <<VLC_AVAILABLE, instance, media_player, media, embed_handle,
                   streaming_disabled>>
    /\ UNCHANGED outsidePlayer

\* pause(), stop(), set_time(ms), set_position(position), set_volume(volume):
\* lines 141-150, 159-168, 227-234, 262-270, 298-306.  One call into VLC inside
\* try; True when it returns, False when it raises.
Command(op, v) ==
    /\ instance # "unconstructed"
    /\ IF NoPlayer
       THEN Returned(op, "none", FALSE)
       ELSE Returned(op, v, v = "ok")
    /\ UNCHANGED <<VLC_AVAILABLE, instance, media_player, media, embed_handle,
                   streaming_disabled>>
    /\ UNCHANGED outsidePlayer

Commands == {"pause", "stop", "set_time", "set_position", "set_volume"}
Getters == {"is_playing", "get_length", "get_time", "get_position", "get_volume"}

\* is_playing(), get_length(), get_time(), get_position(), get_volume():
\* lines 177-183, 192-199, 208-215, 243-250, 279-286.  x is what VLC hands back;
\* positions are in hundredths.
Getter(op, v, x) ==
    /\ instance # "unconstructed"
    /\ IF NoPlayer
       THEN Returned(op, "none", IF op = "is_playing" THEN FALSE ELSE 0)
       ELSE IF v = "raises"
            THEN Returned(op, v, IF op = "is_playing" THEN FALSE ELSE 0)
            ELSE Returned(op, v,
                     CASE op = "is_playing" -> x # 0
                       [] op \in {"get_length", "get_time"} -> IF x < 0 THEN 0 ELSE x
                       [] op \in {"get_position", "get_volume"} -> clamp(0, 100, x))
    /\ UNCHANGED <<VLC_AVAILABLE, instance, media_player, media, embed_handle,
                   streaming_disabled>>
    /\ UNCHANGED outsidePlayer

\* setup_streaming(port), lines 318-336.  Its guard is _streaming_disabled,
\* not the media player; with no media player or no media the attribute
\* access on None raises inside the try block.  v: how the socket and VLC
\* calls end.
setup_streaming(v) ==
    /\ instance # "unconstructed"
    /\ IF ~VLC_AVAILABLE \/ streaming_disabled
       THEN Returned("setup_streaming", "none", <<FALSE, "VLC streaming is not available">>)
       ELSE IF media_player = "None" \/ media = "None" \/ v = "raises"
            THEN Returned("setup_streaming", v, <<FALSE, "Error setting up streaming">>)
            ELSE Returned("setup_streaming", v, <<TRUE, "stream_url">>)
    /\ UNCHANGED <<VLC_AVAILABLE, instance, media_player, media, embed_handle,
                   streaming_disabled>>
    /\ UNCHANGED outsidePlayer

\* disable_streaming(), lines 345-356: with a media loaded it is re-created
\* without the streaming options; without one nothing is called.
disable_streaming(v) ==
    /\ instance # "unconstructed"
    /\ IF NoPlayer
       THEN Returned("disable_streaming", "none", FALSE)
       ELSE IF media = "None"
            THEN Returned("disable_streaming", "none", TRUE)
            ELSE Returned("disable_streaming", v, v = "ok")
    /\ UNCHANGED <<VLC_AVAILABLE, instance, media_player, media, embed_handle,
                   streaming_disabled>>
    /\ UNCHANGED outsidePlayer

\* cleanup(), lines 360-368: a raise of stop() skips the three assignments.
cleanup(v) ==
    /\ instance # "unconstructed"
    /\ IF VLC_AVAILABLE /\ ~(media_player # "None" /\ v = "raises")
       THEN /\ media' = "None"
            /\ media_player' = "None"
            /\ instance' = "None"
       ELSE UNCHANGED <<media, media_player, instance>>
    /\ Returned("cleanup", IF VLC_AVAILABLE /\ media_player # "None" THEN v ELSE "none", FALSE)
    /\ UNCHANGED <<VLC_AVAILABLE, embed_handle, streaming_disabled>>
    /\ UNCHANGED outsidePlayer

PlayerNext ==
    \/ \E avail \in BOOLEAN, ok \in BOOLEAN : VLCPlayer_init(avail, ok)
    \/ \E w \in {"QWidget", "int", "other"}, v \in VlcOutcomes : setup_embedding(w, v)
    \/ \E u \in BOOLEAN, v \in VlcOutcomes, st \in BOOLEAN : play(u, v, st)
    \/ \E op \in Commands, v \in VlcOutcomes : Command(op, v)
    \/ \E op \in Getters, v \in VlcOutcomes, x \in VlcInts : Getter(op, v, x)
    \/ \E v \in VlcOutcomes : setup_streaming(v)
    \/ \E v \in VlcOutcomes : disable_streaming(v)
    \/ \E v \in VlcOutcomes : cleanup(v)

PlayerSpec == Init /\ [][PlayerNext]_vars

\* ---------------------------------------------------------- PlaybackManager
\* Arguments the callers pass: volumes below, in and above 0..100.  A position
\* is the float n / d, kept as the pair <<n, d>> with d > 0: below, in and
\* above 0.0..1.0.
Volumes == {-1, 0, 50, 100, 101}
Positions == {<<-1, 2>>, <<1, 2>>, <<3, 2>>}
\* seek_time's argument in seconds and seek_relative's in seconds forward or
\* backward.
SeekTimes == {-1, 3}
Deltas == {-5, 1, 10}
\* What the player's get_time() and get_length() hand back, in milliseconds
\* (never negative, vlc_player.py lines 197 and 213).
Times == {0, 2000}
Lengths == {0, 999, 2500}

\* Room for one more recorded call and one more recorded signal.
LogRoom == Len(player_calls) < MaxCalls /\ Len(signals) < MaxCalls

\* play_stream(stream_url, video_info), lines 85-89.
play_stream(info) ==
    /\ LogRoom
    /\ current_video_info' = info
    /\ player_calls' = Append(player_calls, <<"play", "stream_url">>)
    /\ is_playing' = TRUE
    /\ is_paused' = FALSE
    /\ signals' = Append(signals, <<"playback_started", info>>)
    /\ playback_last' = <<"play_stream", info>>
    /\ UNCHANGED outsidePlayback

\* stop() without the test of line 93.
stop_Unguarded ==
    /\ LogRoom
    /\ player_calls' = Append(player_calls, <<"stop">>)
    /\ is_playing' = FALSE
    /\ is_paused' = FALSE
    /\ signals' = Append(signals, <<"playback_stopped">>)
    /\ playback_last' = <<"stop", 0>>
    /\ UNCHANGED current_video_info
    /\ UNCHANGED outsidePlayback

\* stop() without the `self._is_paused = False` of line 96.
stop_KeepsPaused ==
    /\ IF is_playing
       THEN /\ LogRoom
            /\ player_calls' = Append(player_calls, <<"stop">>)
            /\ is_playing' = FALSE
            /\ signals' = Append(signals, <<"playback_stopped">>)
       ELSE UNCHANGED <<player_calls, is_playing, signals>>
    /\ playback_last' = <<"stop", 0>>
    /\ UNCHANGED <<is_paused, current_video_info>>
    /\ UNCHANGED outsidePlayback

\* stop(), lines 93-97.
stop ==
    /\ IF is_playing
       THEN /\ LogRoom
            /\ player_calls' = Append(player_calls, <<"stop">>)
            /\ is_playing' = FALSE
            /\ is_paused' = FALSE
            /\ signals' = Append(signals, <<"playback_stopped">>)
       ELSE UNCHANGED <<player_calls, is_playing, is_paused, signals>>
    /\ playback_last' = <<"stop", 0>>
    /\ UNCHANGED current_video_info
    /\ UNCHANGED outsidePlayback

\* pause(), lines 101-104.
pause ==
    /\ IF is_playing
       THEN /\ LogRoom
            /\ player_calls' = Append(player_calls, <<"pause">>)
            /\ is_paused' = TRUE
            /\ signals' = Append(signals, <<"playback_paused", TRUE>>)
       ELSE UNCHANGED <<player_calls, is_paused, signals>>
    /\ playback_last' = <<"pause", 0>>
    /\ UNCHANGED <<is_playing, current_video_info>>
    /\ UNCHANGED outsidePlayback

\* resume(), lines 108-111.
resume ==
    /\ IF is_playing /\ is_paused
       THEN /\ LogRoom
            /\ player_calls' = Append(player_calls, <<"play">>)
            /\ is_paused' = FALSE
            /\ signals' = Append(signals, <<"playback_paused", FALSE>>)
       ELSE UNCHANGED <<player_calls, is_paused, signals>>
    /\ playback_last' = <<"resume", 0>>
    /\ UNCHANGED <<is_playing, current_video_info>>
    /\ UNCHANGED outsidePlayback

\* toggle_play_pause(), lines 115-121: resume() or pause() when playing.
toggle_play_pause ==
    /\ IF is_playing
       THEN /\ LogRoom
            /\ player_calls' = Append(player_calls,
                                      IF is_paused THEN <<"play">> ELSE <<"pause">>)
            /\ is_paused' = ~is_paused
            /\ signals' = Append(signals, <<"playback_paused", ~is_paused>>)
       ELSE UNCHANGED <<player_calls, is_paused, signals>>
    /\ playback_last' = <<"toggle_play_pause", 0>>
    /\ UNCHANGED <<is_playing, current_video_info>>
    /\ UNCHANGED outsidePlayback

\* The body of seek(position), lines 130-133: the position goes to the player
\* and into position_changed as it came.
seek_body(position) ==
    IF is_playing
    THEN /\ LogRoom
         /\ player_calls' = Append(player_calls, <<"set_position", position>>)
         /\ signals' = Append(signals, <<"position_changed", position>>)
    ELSE UNCHANGED <<player_calls, signals>>

\* seek(position), lines 123-133.
seek(position) ==
    /\ seek_body(position)
    /\ playback_last' = <<"seek", position>>
    /\ UNCHANGED <<is_playing, is_paused, current_video_info>>
    /\ UNCHANGED outsidePlayback

\* The body of seek_time(time_seconds), lines 142-144; length is what
\* get_length() hands back here.  The division of line 143 is a true division.
seek_time_body(time_seconds, length) ==
    IF is_playing /\ length > 0
    THEN seek_body(<<time_seconds * 1000, length>>)
    ELSE UNCHANGED <<player_calls, signals>>

\* seek_time(time_seconds), lines 135-144.
seek_time(time_seconds, length) ==
    /\ seek_time_body(time_seconds, length)
    /\ playback_last' = <<"seek_time", <<time_seconds, length>>>>
    /\ UNCHANGED <<is_playing, is_paused, current_video_info>>
    /\ UNCHANGED outsidePlayback

\* seek_relative without the min(total_length, ...) of line 163.
seek_relative_NoUpperLimit(seconds_delta, time, length) ==
    LET current_time == time \div 1000
        total_length == length \div 1000
        new_time == IF current_time + seconds_delta < 0 THEN 0
                    ELSE current_time + seconds_delta
    IN  /\ IF is_playing /\ total_length > 0
           THEN seek_time_body(new_time, length)
           ELSE UNCHANGED <<player_calls, signals>>
        /\ playback_last' = <<"seek_relative", <<seconds_delta, time, length>>>>
        /\ UNCHANGED <<is_playing, is_paused, current_video_info>>
        /\ UNCHANGED outsidePlayback

\* seek_relative(seconds_delta), lines 146-164.  time is what get_time() hands
\* back at line 157 and length what get_length() hands back, at line 158 and
\* again at line 142 inside seek_time: the medium stays the same during the
\* call.
seek_relative(seconds_delta, time, length) ==
    LET current_time == time \div 1000
        total_length == length \div 1000
        new_time == clamp(0, total_length, current_time + seconds_delta)
    IN  /\ IF is_playing /\ total_length > 0
           THEN seek_time_body(new_time, length)
           ELSE UNCHANGED <<player_calls, signals>>
        /\ playback_last' = <<"seek_relative", <<seconds_delta, time, length>>>>
        /\ UNCHANGED <<is_playing, is_paused, current_video_info>>
        /\ UNCHANGED outsidePlayback

\* set_volume emitting the volume it was called with.
set_volume_EmitsArgument(volume) ==
    /\ LogRoom
    /\ player_calls' = Append(player_calls, <<"set_volume", clamp(0, 100, volume)>>)
    /\ signals' = Append(signals, <<"volume_changed", volume>>)
    /\ playback_last' = <<"set_volume", volume>>
    /\ UNCHANGED <<is_playing, is_paused, current_video_info>>
    /\ UNCHANGED outsidePlayback

\* set_volume(volume), lines 173-175.
set_volume(volume) ==
    /\ LogRoom
    /\ player_calls' = Append(player_calls, <<"set_volume", clamp(0, 100, volume)>>)
    /\ signals' = Append(signals, <<"volume_changed", clamp(0, 100, volume)>>)
    /\ playback_last' = <<"set_volume", volume>>
    /\ UNCHANGED <<is_playing, is_paused, current_video_info>>
    /\ UNCHANGED outsidePlayback

PlaybackNext ==
    \/ \E info \in {"info1", "info2"} : play_stream(info)
    \/ stop
    \/ pause
    \/ resume
    \/ toggle_play_pause
    \/ \E position \in Positions : seek(position)
    \/ \E time_seconds \in SeekTimes, length \in Lengths :
           seek_time(time_seconds, length)
    \/ \E seconds_delta \in Deltas, time \in Times, length \in Lengths :
           seek_relative(seconds_delta, time, length)
    \/ \E volume \in Volumes : set_volume(volume)

PlaybackSpec == Init /\ [][PlaybackNext]_vars

\* --------------------------------------------------------- StreamingManager
\* The methods class VLCPlayer defines.  StreamingManager is constructed with
\* the application's VLCPlayer (main_window.py line 326).
VLCPlayerMethods ==
    {"setup_embedding", "play", "pause", "stop", "is_playing", "get_length",
     "get_time", "set_time", "get_position", "set_position", "get_volume",
     "set_volume", "setup_streaming", "disable_streaming", "cleanup"}

\* How self.vlc_player.enable_streaming(host=..., port=...) ends: looking up
\* an attribute the player does not have raises AttributeError.
EnableOutcomes ==
    IF "enable_streaming" \in VLCPlayerMethods
    THEN {"True", "False", "raises"}
    ELSE {"AttributeError"}

\* The player is able to stream: setup_streaming() would return (True, url).
PlayerCanStream ==
    /\ VLC_AVAILABLE
    /\ ~streaming_disabled
    /\ media_player = "obj"
    /\ media = "obj"

Ports == {-1, 1023, 1024, 9090, 65535, 65536}

\* The calls the player has seen once enable_streaming(port=port) has ended
\* as e: a missing attribute is no call.
AfterEnable(calls, port, e) ==
    IF e = "AttributeError" THEN calls
    ELSE Append(calls, <<"enable_streaming", port>>)

\* toggle_streaming(), lines 95-120.  VLCPlayer.disable_streaming never raises
\* and its return value is not looked at.
toggle_streaming(e) ==
    /\ instance # "unconstructed"
    /\ Len(streaming_calls) < MaxLog
    /\ IF is_streaming_enabled
       THEN /\ is_streaming_enabled' = FALSE
            /\ streaming_calls' = Append(streaming_calls, <<"disable_streaming">>)
            /\ streaming_last' = <<"toggle_streaming", 0,
                                   <<FALSE, "Audio streaming disabled">> >>
       ELSE /\ is_streaming_enabled' = (e = "True")
            /\ streaming_calls' = AfterEnable(streaming_calls, stream_port, e)
            /\ streaming_last' =
                  <<"toggle_streaming", 0,
                    CASE e = "True" -> <<TRUE, "Audio streaming enabled at stream_url">>
                      [] e = "False" -> <<FALSE, "Failed to enable audio streaming">>
                      [] OTHER -> <<FALSE, "Error enabling streaming">> >>
    /\ UNCHANGED <<stream_port, stream_url>>
    /\ UNCHANGED outsideStreaming

\* set_stream_port testing the upper limit only.
set_stream_port_NoLowerLimit(port, e) ==
    /\ instance # "unconstructed"
    /\ Len(streaming_calls) + 1 < MaxLog
    /\ IF port > 65535
       THEN /\ streaming_last' = <<"set_stream_port", port, FALSE>>
            /\ UNCHANGED <<is_streaming_enabled, stream_port, stream_url, streaming_calls>>
       ELSE /\ stream_port' = port
            /\ stream_url' = StreamUrl(port)
            /\ IF is_streaming_enabled
               THEN /\ streaming_calls' =
                          AfterEnable(Append(streaming_calls, <<"disable_streaming">>),
                                      port, e)
                    /\ is_streaming_enabled' = (e = "True")
                    /\ streaming_last' = <<"set_stream_port", port, e = "True">>
               ELSE /\ streaming_last' = <<"set_stream_port", port, TRUE>>
                    /\ UNCHANGED <<is_streaming_enabled, streaming_calls>>
    /\ UNCHANGED outsideStreaming

\* set_stream_port(port), lines 155-185.  With streaming enabled the player is
\* told to disable, the port and url are replaced, and the restart through
\* enable_streaming decides the result.
set_stream_port(port, e) ==
    /\ instance # "unconstructed"
    /\ Len(streaming_calls) + 1 < MaxLog
    /\ IF port < 1024 \/ port > 65535
       THEN /\ streaming_last' = <<"set_stream_port", port, FALSE>>
            /\ UNCHANGED <<is_streaming_enabled, stream_port, stream_url, streaming_calls>>
       ELSE /\ stream_port' = port
            /\ stream_url' = StreamUrl(port)
            /\ IF is_streaming_enabled
               THEN /\ streaming_calls' =
                          AfterEnable(Append(streaming_calls, <<"disable_streaming">>),
                                      port, e)
                    /\ is_streaming_enabled' = (e = "True")
                    /\ streaming_last' = <<"set_stream_port", port, e = "True">>
               ELSE /\ streaming_last' = <<"set_stream_port", port, TRUE>>
                    /\ UNCHANGED <<is_streaming_enabled, streaming_calls>>
    /\ UNCHANGED outsideStreaming

\* The streaming manager together with the player it was given.
StreamingNext ==
    \/ \E avail \in BOOLEAN, ok \in BOOLEAN : VLCPlayer_init(avail, ok)
    \/ \E u \in BOOLEAN, v \in VlcOutcomes, st \in BOOLEAN : play(u, v, st)
    \/ \E v \in VlcOutcomes : cleanup(v)
    \/ \E e \in EnableOutcomes : toggle_streaming(e)
    \/ \E port \in Ports, e \in EnableOutcomes : set_stream_port(port, e)

StreamingSpec == Init /\ [][StreamingNext]_vars

\* -------------------------------------------------------------- PlaylistTab
\* Strings are sequences of characters; these are the texts a user types, a
\* caller passes or a file holds: empty, blank, a url, a url after a blank.
Texts == {<<>>, <<" ">>, <<"u">>, <<" ", "u">>}

\* str.strip()
RECURSIVE strip(_)
strip(text) ==
    IF text = <<>> THEN <<>>
    ELSE IF Head(text) = " " THEN strip(Tail(text))
    ELSE IF text[Len(text)] = " " THEN strip(SubSeq(text, 1, Len(text) - 1))
    ELSE text

\* models.PlaylistItem(url=..., title=...): the dataclass stores what it is given.
PlaylistItem(url, title) == [url |-> url, title |-> title]

\* What json.load hands load_playlist: a list of dicts, one per item, some
\* without a "url" key.
FileEntries == {PlaylistItem(u, "t") : u \in Texts} \cup {[title |-> "t"]}
FileData == UNION {[1..n -> FileEntries] : n \in 0..MaxItems}

\* The items load_playlist's loop (lines 305-307) has added when it ends:
\* PlaylistItem.from_dict raises TypeError at the first dict without "url".
RECURSIVE LoadedItems(_)
LoadedItems(data) ==
    IF data = <<>> THEN <<>>
    ELSE IF "url" \notin DOMAIN Head(data) THEN <<>>
    ELSE <<Head(data)>> \o LoadedItems(Tail(data))

\* add_item(item), lines 265-267.
add_item(item) ==
    /\ Len(playlist_items) < MaxItems
    /\ playlist_items' = Append(playlist_items, item)
    /\ playlist_last' = <<"add_item", "none", <<>> >>
    /\ UNCHANGED current_playlist_index
    /\ UNCHANGED outsidePlaylist

\* _add_current_url(), lines 243-249: PlaylistItem(title=..., duration=0)
\* lacks the required url, so the constructor raises TypeError before
\* add_item is reached.
add_current_url(text) ==
    /\ playlist_last' = <<"_add_current_url",
                          IF strip(text) # <<>> THEN "TypeError" ELSE "none", <<>> >>
    /\ UNCHANGED <<playlist_items, current_playlist_index>>
    /\ UNCHANGED outsidePlaylist

\* MainWindow.quick_add_to_playlist(), main_window.py lines 981-993.
quick_add_to_playlist(text, has_info) ==
    /\ Len(playlist_items) < MaxItems
    /\ playlist_items' = IF strip(text) # <<>> /\ has_info
                         THEN Append(playlist_items, PlaylistItem(strip(text), "t"))
                         ELSE playlist_items
    /\ playlist_last' = <<"quick_add_to_playlist", "none", <<>> >>
    /\ UNCHANGED current_playlist_index
    /\ UNCHANGED outsidePlaylist

\* clear_playlist(), lines 271-274.
clear_playlist ==
    /\ playlist_items' = <<>>
    /\ current_playlist_index' = -1
    /\ playlist_last' = <<"clear_playlist", "none", <<"playlist_cleared">> >>
    /\ UNCHANGED outsidePlaylist

\* load_playlist(), lines 296-315.  read is how choosing, opening and parsing
\* the file ended: "canceled" (no file name), "OSError", "JSONDecodeError", or
\* "parsed" with data the list json.load handed back.  After a parse the
\* playlist is cleared and the file's items are added one by one; an
\* exception ends the method in the message box of line 315 and is not let out.
load_playlist(read, data) ==
    /\ playlist_last' =
          <<"load_playlist", "none",
            IF read # "parsed" THEN <<>>
            ELSE IF Len(LoadedItems(data)) = Len(data)
                 THEN <<"playlist_cleared", "playlist_loaded">>
                 ELSE <<"playlist_cleared">> >>
    /\ IF read = "parsed"
       THEN /\ playlist_items' = LoadedItems(data)
            /\ current_playlist_index' = -1
       ELSE UNCHANGED <<playlist_items, current_playlist_index>>
    /\ UNCHANGED outsidePlaylist

\* The value get_current_item() returns for None.
NoItem == [none |-> TRUE]

\* get_current_item(), lines 324-326.
get_current_item ==
    IF 0 <= current_playlist_index /\ current_playlist_index < Len(playlist_items)
    THEN playlist_items[current_playlist_index + 1]
    ELSE NoItem

\* set_current_index without the test of line 360.
set_current_index_Unchecked(index) ==
    /\ current_playlist_index' = index
    /\ playlist_last' = <<"set_current_index", "none", <<>> >>
    /\ UNCHANGED playlist_items
    /\ UNCHANGED outsidePlaylist

\* set_current_index(index), lines 360-361.
set_current_index(index) ==
    /\ current_playlist_index' =
          IF 0 <= index /\ index < Len(playlist_items) THEN index
          ELSE current_playlist_index
    /\ playlist_last' = <<"set_current_index", "none", <<>> >>
    /\ UNCHANGED playlist_items
    /\ UNCHANGED outsidePlaylist

\* _on_item_double_clicked(item), lines 253-256; index is the row of the
\* clicked item in the list widget, which has a row per playlist item.
on_item_double_clicked(index) ==
    /\ index < Len(playlist_items)
    /\ current_playlist_index' = index
    /\ playlist_last' = <<"_on_item_double_clicked", "none",
                          <<"playlist_item_selected">> >>
    /\ UNCHANGED playlist_items
    /\ UNCHANGED outsidePlaylist

PlaylistNext ==
    \/ \E u \in Texts : add_item(PlaylistItem(u, "t"))
    \/ \E text \in Texts : add_current_url(text)
    \/ \E text \in Texts, has_info \in BOOLEAN : quick_add_to_playlist(text, has_info)
    \/ clear_playlist
    \/ \E read \in {"canceled", "OSError", "JSONDecodeError"} : load_playlist(read, <<>>)
    \/ \E data \in FileData : load_playlist("parsed", data)
    \/ \E index \in -1..MaxItems : set_current_index(index)
    \/ \E index \in 0..(MaxItems - 1) : on_item_double_clicked(index)

PlaylistSpec == Init /\ [][PlaylistNext]_vars

\* ---------------------------------------------------------- SettingsManager
\* str(hash(url)), lines 509 and 536.
url_hash(url) == <<"str", hash_of[url]>>

SavedPositions == {0, 5}

\* m with key k set to v (dict / QSettings assignment).
Put(m, k, v) == [x \in DOMAIN m \cup {k} |-> IF x = k THEN v ELSE m[x]]

\* load_url_hash_map, url_map[url] = url_hash, save_url_hash_map (lines
\* 512-514): the dictionary keeps its entries in the array's order, an
\* assignment to a url it holds replaces the hash in place, a new url goes last.
SetItem(url_map, url, hash) ==
    IF \E i \in 1..Len(url_map) : url_map[i].url = url
    THEN [i \in 1..Len(url_map) |->
             IF url_map[i].url = url THEN [url |-> url, hash |-> hash] ELSE url_map[i]]
    ELSE Append(url_map, [url |-> url, hash |-> hash])

\* The dictionaries handed to save_video_positions.
PositionDicts == {[u \in S |-> 5] : S \in (SUBSET Urls) \ {{}}}

\* The application is closed and started again: QSettings reads back what was
\* persisted, and the new interpreter salts its string hashes anew (the same
\* values only when PYTHONHASHSEED fixes them).
restart(h) ==
    /\ hash_of' = h
    /\ settings_last' = <<"restart", "none", 0>>
    /\ UNCHANGED <<remember_position, video_positions, url_hash_map, stored>>
    /\ UNCHANGED outsideSettings

\* set_remember_position(remember), line 220.
set_remember_position(remember) ==
    /\ remember_position' = remember
    /\ settings_last' = <<"set_remember_position", "none", 0>>
    /\ UNCHANGED <<video_positions, url_hash_map, hash_of, stored>>
    /\ UNCHANGED outsideSettings

\* update_video_position(url, position), lines 505-520.
update_video_position(url, position) ==
    /\ IF remember_position
       THEN /\ url_hash_map' = SetItem(url_hash_map, url, url_hash(url))
            /\ video_positions' = Put(video_positions, url_hash(url), position)
            /\ stored' = [stored EXCEPT ![url] = position]
       ELSE UNCHANGED <<url_hash_map, video_positions, stored>>
    /\ settings_last' = <<"update_video_position", url, 0>>
    /\ UNCHANGED <<remember_position, hash_of>>
    /\ UNCHANGED outsideSettings

\* save_video_positions(positions), lines 415-423: every position goes into
\* the group under str(hash(url)); the url_hash_map array is not written.
save_video_positions(positions) ==
    /\ video_positions' =
          [k \in DOMAIN video_positions \cup {url_hash(u) : u \in DOMAIN positions} |->
              IF \E u \in DOMAIN positions : url_hash(u) = k
              THEN positions[CHOOSE u \in DOMAIN positions : url_hash(u) = k]
              ELSE video_positions[k]]
    /\ stored' = [u \in Urls |-> IF u \in DOMAIN positions THEN positions[u] ELSE stored[u]]
    /\ settings_last' = <<"save_video_positions", "none", 0>>
    /\ UNCHANGED <<remember_position, url_hash_map, hash_of>>
    /\ UNCHANGED outsideSettings

\* load_video_positions(), lines 432-454: each key of the group is looked up
\* among the hashes of url_hash_map, in the array's order, and the position
\* goes under the first url that has it; a key no url has is left out.
load_video_positions ==
    LET Holders(k) == {i \in 1..Len(url_hash_map) : url_hash_map[i].hash = k}
        original_url(k) ==
            url_hash_map[CHOOSE i \in Holders(k) : \A j \in Holders(k) : i <= j].url
        found == {k \in DOMAIN video_positions : Holders(k) # {}}
        positions == [u \in {original_url(k) : k \in found} |->
                         video_positions[CHOOSE k \in found : original_url(k) = u]]
    IN  /\ settings_last' = <<"load_video_positions", "none", positions>>
        /\ UNCHANGED <<remember_position, video_positions, url_hash_map, hash_of, stored>>
        /\ UNCHANGED outsideSettings

\* get_video_position(url), lines 532-542.
get_video_position(url) ==
    /\ settings_last' =
          <<"get_video_position", url,
            IF ~remember_position THEN 0
            ELSE IF url_hash(url) \in DOMAIN video_positions
                 THEN video_positions[url_hash(url)]
                 ELSE 0>>
    /\ UNCHANGED <<remember_position, video_positions, url_hash_map, hash_of, stored>>
    /\ UNCHANGED outsideSettings

SettingsNext ==
    \/ \E h \in HashFns : restart(h)
    \/ \E remember \in BOOLEAN : set_remember_position(remember)
    \/ \E url \in Urls, position \in SavedPositions : update_video_position(url, position)
    \/ \E url \in Urls : get_video_position(url)
    \/ \E positions \in PositionDicts : save_video_positions(positions)
    \/ load_video_positions

SettingsSpec == Init /\ [][SettingsNext]_vars

\* --------------------------------------------------------------- HistoryTab
\* A video info dictionary: its url (urls are numbered) and its "last_played"
\* entry ("none": the key is absent, "now": datetime.now().isoformat() of the
\* latest add).
Video(url, last_played) == [url |-> url, last_played |-> last_played]
\* The lists a caller hands to update_history or load_history_data: n different
\* videos, and a list that names one video twice.
Given(n) == [i \in 1..n |-> Video(i, "earlier")]
HistoryData == {Given(n) : n \in {0, 2, MaxGiven}}
                   \cup {<<Video(1, "earlier"), Video(2, "earlier"), Video(1, "earlier")>>}
\* video_info arguments; NoVideo is handle_video_loaded's default None (or an
\* empty dictionary), which `if video_info` takes for false.
NoVideo == [none |-> TRUE]
VideoInfos == {Video(url, "none") : url \in 1..3} \cup {NoVideo}

\* The text of one row, lines 261-278: the title and duration, then the date
\* when last_played is present.
Row(video) == <<"title (duration)", video.url,
                IF video.last_played = "none" THEN "" ELSE " - date">>

\* update_history(recently_played_list), lines 258-282: the list given becomes
\* recently_played and the widget is refilled from it.
Shown(list) ==
    /\ recently_played' = list
    /\ history_list' = [i \in 1..Len(list) |-> Row(list[i])]

update_history(recently_played_list) ==
    /\ Shown(recently_played_list)
    /\ history_last' = <<"update_history", Len(recently_played_list)>>
    /\ UNCHANGED outsideHistory

\* list.pop(index) with a 0-based index inside the list
Pop(list, index) ==
    [i \in 1..(Len(list) - 1) |-> IF i <= index THEN list[i] ELSE list[i + 1]]

\* list[:n]
Prefix(list, n) == SubSeq(list, 1, IF Len(list) < n THEN Len(list) ELSE n)

\* Lines 308-327 of add_to_history: stamp, drop the first entry with the same
\* url, insert in front, keep ten.
Added(list, video_info) ==
    LET stamped == [video_info EXCEPT !.last_played = "now"]
        same == {i \in 1..Len(list) : list[i].url = stamped.url}
        existing_index == IF same = {} THEN -1
                          ELSE (CHOOSE i \in same : \A j \in same : i <= j) - 1
        popped == IF existing_index >= 0 THEN Pop(list, existing_index) ELSE list
    IN  Prefix(<<stamped>> \o popped, HistoryLimit)

\* add_to_history(video_info), lines 301-327.
add_to_history(video_info) ==
    /\ video_info # NoVideo
    /\ Shown(Added(recently_played, video_info))
    /\ history_last' = <<"add_to_history", video_info.url>>
    /\ UNCHANGED outsideHistory

\* handle_video_loaded(video_info), lines 364-365.
handle_video_loaded(video_info) ==
    /\ IF video_info # NoVideo
       THEN Shown(Added(recently_played, video_info))
       ELSE UNCHANGED <<recently_played, history_list>>
    /\ history_last' = <<"handle_video_loaded",
                         IF video_info = NoVideo THEN "None" ELSE video_info.url>>
    /\ UNCHANGED outsideHistory

\* clear_history(), lines 331-333.
clear_history ==
    /\ recently_played' = <<>>
    /\ history_list' = <<>>
    /\ history_last' = <<"clear_history", "none">>
    /\ UNCHANGED outsideHistory

\* load_history_data(history_data), lines 352-353.
load_history_data(history_data) ==
    /\ Shown(Prefix(history_data, HistoryLimit))
    /\ history_last' = <<"load_history_data", Len(history_data)>>
    /\ UNCHANGED outsideHistory

\* remove_video_at_index(index), lines 400-402.
remove_video_at_index(index) ==
    /\ IF 0 <= index /\ index < Len(recently_played)
       THEN Shown(Pop(recently_played, index))
       ELSE UNCHANGED <<recently_played, history_list>>
    /\ history_last' = <<"remove_video_at_index", index>>
    /\ UNCHANGED outsideHistory

HistoryNext ==
    \/ \E video_info \in VideoInfos : add_to_history(video_info)
    \/ \E video_info \in VideoInfos : handle_video_loaded(video_info)
    \/ \E list \in HistoryData : update_history(list)
    \/ \E list \in HistoryData : load_history_data(list)
    \/ \E index \in {-1, 0, 1, HistoryLimit} : remove_video_at_index(index)
    \/ clear_history

HistorySpec == Init /\ [][HistoryNext]_vars

\* -------------------------------------------------------- TranscriptManager
\* video_id arguments: "" is the id `not video_id` takes for missing.
VideoIds == {"", "v1", "v2"}

\* The method op has ended: error is the exception it let out ("None": it
\* returned), started tells whether it handed a task to a thread.
TranscriptReturned(op, video_id, error, started) ==
    transcript_last' = [op |-> op, video_id |-> video_id, raised |-> error,
                        started |-> started]

\* clear_transcript(), lines 241-246, with PySide6 present.
clear_transcript ==
    /\ Len(transcript_signals) < MaxEmitted
    /\ current_transcript_entries' = <<>>
    /\ current_transcript_language' = "None"
    /\ available_transcript_languages' = <<>>
    /\ transcript_signals' = Append(transcript_signals, <<"transcript_cleared">>)
    /\ TranscriptReturned("clear_transcript", "None", "None", FALSE)
    /\ UNCHANGED current_video_id
    /\ UNCHANGED outsideTranscript

\* The names class ThreadManager and its instances offer, thread_manager.py
\* lines 149-277.
ThreadManagerNames == {"submit", "submit_task", "cancel_all_threads", "wait_for_all",
                       "shutdown", "max_threads", "active_threads", "futures"}

\* fetch_transcript(video_id, language_code), lines 154-211.  With an id it
\* clears, keeps the id and defines fetch_task; the call of lines 207-211
\* then looks up run_in_thread on the manager and PRIORITY_NORMAL on the
\* class.  Neither name exists, the lookup raises AttributeError out of the
\* method, and fetch_task (lines 166-204) is handed to no thread.
fetch_transcript(video_id) ==
    /\ Len(transcript_signals) < MaxEmitted
    /\ IF video_id = ""
       THEN /\ transcript_signals' =
                   Append(transcript_signals, <<"transcript_error", "No video ID provided">>)
            /\ TranscriptReturned("fetch_transcript", video_id, "None", FALSE)
            /\ UNCHANGED <<current_video_id, current_transcript_entries,
                           current_transcript_language, available_transcript_languages>>
       ELSE /\ current_transcript_entries' = <<>>
            /\ current_transcript_language' = "None"
            /\ available_transcript_languages' = <<>>
            /\ transcript_signals' = Append(transcript_signals, <<"transcript_cleared">>)
            /\ current_video_id' = video_id
            /\ IF {"run_in_thread", "PRIORITY_NORMAL"} \subseteq ThreadManagerNames
               THEN TranscriptReturned("fetch_transcript", video_id, "None", TRUE)
               ELSE TranscriptReturned("fetch_transcript", video_id, "AttributeError", FALSE)
    /\ UNCHANGED outsideTranscript

TranscriptNext ==
    \/ clear_transcript
    \/ \E video_id \in VideoIds : fetch_transcript(video_id)

TranscriptSpec == Init /\ [][TranscriptNext]_vars

\* ================================================================ claims
\* Handles whose callable is executing right now.
RunningHandles == {t \in Tasks : phase[t] = "running"}

\* C1: a task's terminal states are absorbing: once is_completed() is true or
\* get_exception() is set, no later step (cancel, cancel_all_threads,
\* shutdown) changes the handle, in particular is_canceled() does not become
\* true.  (The claim's last clause, that a task canceled before it ran never
\* runs and so never completes or fails, is the statement of C2.)
C1_TerminalStatesAbsorbing ==
    [][\A t \in Tasks :
          (is_completed(t) \/ get_exception(t) # "None")
              => /\ canceled'[t] = canceled[t]
                 /\ completed'[t] = completed[t]
                 /\ exception'[t] = exception[t]
                 /\ result'[t] = result[t]
      ]_vars

\* C2: when cancel() is called before the callable has begun executing, the
\* callable is never executed, whatever the interleaving with the task's thread.
C2_CancelBeforeStartNeverRuns ==
    [][\A t \in Tasks :
          (is_canceled(t) /\ phase[t] \in {"started", "checked"})
              => phase'[t] # "running"
      ]_vars

\* C5: wait_for_all returns True only when every tracked task has finished
\* executing: at a return of True no handle of the registry is running, a
\* canceled one included.
C5_WaitTrueMeansAllFinished ==
    [][(wpc = "loop" /\ wpc' = "idle" /\ wResult' = "True")
          => \A t \in Range(active_threads) : phase[t] # "running"
      ]_vars

\* C6: wait_for_all(timeout=0) returns without having slept (no polling
\* interval has been added to the elapsed time), and returns False whenever a
\* task the registry keeps is still active.
C6_ZeroTimeoutImmediateFalse ==
    [][(wpc = "loop" /\ wTimeout = 0 /\ wpc' = "idle")
          => /\ wElapsed = 0
             /\ (\E t \in Range(active_threads) : KeepInRegistry(t)) => wResult' = "False"
      ]_vars

\* C7: at most max_threads tasks submitted through the manager execute at
\* the same time.
C7_AtMostMaxThreadsExecuting ==
    Cardinality(RunningHandles) + Cardinality(RunningFutures) <= max_threads


\* C3: once shutdown() has set the flag, the flag stays set, no step creates
\* a handle or a future or adds one to the registry, the futures or the
\* executor's queue, and every submit() and submit_task() ends with the
\* "ThreadManager is shutting down" RuntimeError.
C3_ShutdownRejectsSubmissions ==
    [][shutdown_flag
          => /\ shutdown_flag'
             /\ \A t \in Tasks : phase[t] = "unborn" => phase'[t] = "unborn"
             /\ \A f \in Futures : fstate[f] = "unborn" => fstate'[f] = "unborn"
             /\ Range(active_threads') \subseteq Range(active_threads)
             /\ Range(futures') \subseteq Range(futures)
             /\ Range(workQueue') \subseteq Range(workQueue)
             /\ (submit \/ submit_task) => raised' = "RuntimeError"
      ]_vars

\* A submission was refused after shutdown() had returned.
C3_Witness == shutdown_flag /\ lock = "free" /\ raised = "RuntimeError"

\* An outcome shows on the handle.
OutcomeShown(t) == is_completed(t) \/ get_exception(t) # "None" \/ is_canceled(t)

\* C4 as stated: a task whose callable returned or raised shows an outcome,
\* so a handle whose thread has ended is completed, failed or canceled.
C4_NoTaskEndsWithoutOutcome ==
    \A t \in Tasks : phase[t] = "dead" => OutcomeShown(t)

\* C4 amended: every accepted task eventually shows an outcome on its handle
\* unless its callable raised a BaseException that is no Exception.
C4_OutcomeEventuallyShown ==
    \A t \in Tasks :
        (phase[t] # "unborn") ~> (OutcomeShown(t) \/ outcome[t] = "raised_base")

\* A task accepted before shutdown() has completed after it.
C4_Witness ==
    \E t \in Tasks : shutdown_flag /\ phase[t] = "dead" /\ is_completed(t)

C9_RaisedIsStored ==
    /\ \A t \in Tasks :
          /\ outcome[t] \in {"raised", "raised_base"}
                => /\ get_exception(t) # "None"
                   /\ ~is_completed(t)
                   /\ get_result(t) = "None"
          /\ ~(is_completed(t) /\ get_exception(t) # "None")
    /\ raised \in {"none", "RuntimeError"}

\* C9 amended: an Exception the callable raises is stored on the handle; a
\* BaseException that is no Exception is not stored; in both cases
\* is_completed() stays false and get_result() None; never both completed and
\* an exception; submit() itself raises nothing but the shutdown error.
C9_ExceptionIsStored ==
    /\ \A t \in Tasks :
          /\ outcome[t] = "raised" => get_exception(t) = "Exception"
          /\ outcome[t] = "raised_base" => get_exception(t) = "None"
          /\ outcome[t] \in {"raised", "raised_base"}
                => ~is_completed(t) /\ get_result(t) = "None"
          /\ ~(is_completed(t) /\ get_exception(t) # "None")
    /\ raised \in {"none", "RuntimeError"}

\* A callable raised and the handle holds the exception.
C9_Witness ==
    \E t \in Tasks : outcome[t] = "raised" /\ get_exception(t) = "Exception"

\* C10: a step that sets the cancel flag of a running task changes nothing
\* else of the handle and leaves the callable running; a canceled running
\* callable that returns makes is_completed() true.
C10_CancelRunningOnlySetsFlag ==
    [][\A t \in Tasks :
          phase[t] = "running"
              => /\ (canceled'[t] # canceled[t])
                    => /\ canceled'[t]
                       /\ phase'[t] = "running"
                       /\ completed'[t] = completed[t]
                       /\ exception'[t] = exception[t]
                       /\ result'[t] = result[t]
                 /\ (is_canceled(t) /\ outcome'[t] = "returned") => completed'[t]
      ]_vars

\* A handle with is_canceled() and is_completed() both true.
C10_Witness ==
    \E t \in Tasks : is_canceled(t) /\ is_completed(t) /\ outcome[t] = "returned"


\* C11: shutdown() first marks the manager closed and sets the cancel flag of
\* every tracked task (and cancels every pending future); each round of its
\* wait either ends shutdown or advances its clock, which never passes the
\* 2.0 s limit, so it returns whether or not the callables finish; when it
\* returns the registry and the list of futures are empty and the executor
\* has been shut down.
C11_ShutdownCancelsAndReturnsEmpty ==
    [][/\ (lock = "free" /\ lock' = "shutdown") =>
              /\ shutdown_flag'
              /\ \A t \in Range(active_threads) : is_canceled(t)'
              /\ \A f \in Range(futures) : fstate'[f] # "PENDING"
       /\ lock = "shutdown" => shutdown_flag
       /\ shutdown_wait =>
              \/ lock' = "free"
              \/ /\ sElapsed' > sElapsed
                 /\ sElapsed' <= ShutdownTimeoutTenths
       /\ (lock = "shutdown" /\ lock' = "free") =>
              /\ active_threads' = <<>>
              /\ futures' = <<>>
              /\ executor_shutdown'
              /\ shutdown_flag'
      ]_vars

\* shutdown() has returned while a task it flagged is still inside its
\* callable.
C11_Witness ==
    /\ lock = "free"
    /\ shutdown_flag
    /\ executor_shutdown
    /\ active_threads = <<>>
    /\ futures = <<>>
    /\ \E t \in Tasks : phase[t] = "running" /\ is_canceled(t)

\* C13: cancel_all_threads(), called by a client or by shutdown(), leaves
\* every handle that was in the registry canceled, running or not, and no
\* step takes a cancel flag back.
C13_CancelAllFlagsEveryTracked ==
    [][/\ (cancel_all_threads \/ shutdown_begin) =>
              \A t \in Range(active_threads) : is_canceled(t)'
       /\ \A t \in Tasks : is_canceled(t) => is_canceled(t)'
      ]_vars

\* cancel_all_threads() has flagged a handle whose callable is running.
C13_Witness ==
    \E t \in Range(active_threads) :
        phase[t] = "running" /\ is_canceled(t) /\ lock = "free" /\ ~shutdown_flag


\* C12: a thread reads or writes the registry only while it owns the
\* manager's lock, so no two threads are inside a registry access at once, in
\* every interleaving of submit, cancel_all_threads, wait_for_all and shutdown.
C12_RegistryAccessUnderLock ==
    /\ \A c \in accessing : lock_owner = c /\ lock_count > 0
    /\ Cardinality(accessing) <= 1

\* One thread is inside wait_for_all's look at the registry while another is
\* blocked at the lock on its way into submit().
C12_Witness ==
    \E c, d \in Callers :
        /\ c # d
        /\ c \in accessing
        /\ cpc[c] = <<"wait_for_all", 6>>
        /\ cpc[d] = <<"submit", 1>>


\* What each VLCPlayer method returns for a failure.
FailureValue(op) ==
    CASE op \in {"get_length", "get_time", "get_position", "get_volume"} -> {0}
      [] op = "setup_streaming" -> {<<FALSE, "VLC streaming is not available">>,
                                    <<FALSE, "Error setting up streaming">>}
      [] OTHER -> {FALSE}

\* C14: no VLCPlayer operation lets an exception out, and when no media
\* player exists or its call into VLC raised, the value it returned is its
\* failure value (False, 0, 0.0 or (False, message)).
C14_FailureByReturnValue ==
    /\ ~player_last.escaped
    /\ (player_last.op \notin {"none", "cleanup"}
        /\ (player_last.no_player \/ player_last.vlc_raised))
           => player_last.ret \in FailureValue(player_last.op)

\* A setter whose call into VLC raised, with a media player present.
C14_Witness ==
    /\ player_last.op = "set_volume"
    /\ player_last.vlc_raised
    /\ ~player_last.no_player
    /\ player_last.ret = FALSE


\* C15: a call of stop() or pause() while not playing, or of resume() unless
\* playing and paused, makes no call on the player, emits no signal and
\* leaves is_playing, is_paused and the current video info as they were.
C15_GuardedCallsAreNoOps ==
    [][(\/ playback_last'[1] \in {"stop", "pause"} /\ ~is_playing
        \/ playback_last'[1] = "resume" /\ ~(is_playing /\ is_paused))
         => UNCHANGED <<player_calls, signals, is_playing, is_paused,
                        current_video_info>>
      ]_vars

\* resume() was called while playing and not paused: the player has seen
\* the call of play_stream only.
C15_Witness ==
    /\ playback_last[1] = "resume"
    /\ is_playing
    /\ ~is_paused
    /\ Len(player_calls) = 1
    /\ Len(signals) = 1

\* C16: set_volume(v) hands max(0, min(100, v)) to the player and emits
\* volume_changed with that same value, for every integer v.
C16_VolumeClampedAndEmitted ==
    [][\A v \in Volumes :
          (playback_last' = <<"set_volume", v>> /\ player_calls' # player_calls) =>
              LET c == IF v < 0 THEN 0 ELSE IF v > 100 THEN 100 ELSE v
              IN  /\ player_calls' = Append(player_calls, <<"set_volume", c>>)
                  /\ signals' = Append(signals, <<"volume_changed", c>>)
      ]_vars

\* set_volume was called with a volume above 100 and one below 0.
C16_Witness ==
    /\ playback_last = <<"set_volume", -1>>
    /\ Len(player_calls) = 2
    /\ player_calls[1] = <<"set_volume", 100>>
    /\ player_calls[2] = <<"set_volume", 0>>
    /\ signals[2] = <<"volume_changed", 0>>


C18_PortValidated ==
    [][\A p \in Ports :
          (/\ streaming_last'[1] = "set_stream_port"
           /\ streaming_last'[2] = p
           /\ streamingVars' # streamingVars) =>
              IF p < 1024 \/ p > 65535
              THEN /\ streaming_last'[3] = FALSE
                   /\ UNCHANGED <<stream_port, stream_url, is_streaming_enabled,
                                  streaming_calls>>
              ELSE ~is_streaming_enabled =>
                       /\ streaming_last'[3] = TRUE
                       /\ stream_port' = p
      ]_vars

\* With streaming disabled the port was set to 65535 and then a call with
\* 65536 was refused.
C18_Witness ==
    /\ streaming_last = <<"set_stream_port", 65536, FALSE>>
    /\ stream_port = 65535
    /\ stream_url = StreamUrl(65535)
    /\ ~is_streaming_enabled
    /\ Len(streaming_calls) = 1


\* C19: every item the playlist holds has a non-empty url, however it was
\* added.
C19_ItemsHaveUrl ==
    \A i \in 1..Len(playlist_items) : playlist_items[i].url # <<>>


\* C20: while remember_position is enabled, get_video_position(url) returns
\* the position update_video_position stored last for that url, also after a
\* restart, and 0 for a url never stored.
C20_ReturnsLastStoredPosition ==
    (settings_last[1] = "get_video_position" /\ remember_position)
        => settings_last[3] = stored[settings_last[2]]

\* The float n / d of the pair p lies in 0.0..1.0.
InUnitRange(p) == 0 <= p[1] /\ p[1] <= p[2]

\* C21: seek_relative(delta) while playing, with a media length of L ms that
\* is one second or more, passes the position
\* max(0, min(L div 1000, time div 1000 + delta)) * 1000 / L to the player, a
\* position within 0.0..1.0; when not playing, or when the length is below
\* one second, it makes no call on the player and emits nothing.
C21_SeekRelativeClamped ==
    [][\A d \in Deltas, t \in Times, L \in Lengths :
          playback_last' = <<"seek_relative", <<d, t, L>>>> =>
              IF is_playing /\ L >= 1000
              THEN LET cur == t \div 1000
                       tot == L \div 1000
                       low == IF cur + d < tot THEN cur + d ELSE tot
                       sec == IF low > 0 THEN low ELSE 0
                   IN  /\ player_calls' =
                              Append(player_calls, <<"set_position", <<sec * 1000, L>>>>)
                       /\ InUnitRange(<<sec * 1000, L>>)
              ELSE UNCHANGED <<player_calls, signals>>
      ]_vars

\* seek_relative(10) two seconds into a 2.5 second medium was cut to the
\* medium's two whole seconds.
C21_Witness ==
    /\ playback_last = <<"seek_relative", <<10, 2000, 2500>>>>
    /\ Len(player_calls) = 2
    /\ player_calls[2] = <<"set_position", <<2000, 2500>>>>

\* C22: cancel() returns True only for a task whose callable has not
\* executed: called on a handle whose callable has started, is running or has
\* finished, it returns False.
C22_CancelTrueOnlyIfNeverRan ==
    [][\A t \in Tasks :
          (cancel(t) /\ Executed(t)) => ~CancelReturns(t)
      ]_vars

\* C23: every position_changed signal emitted carries a position within
\* 0.0..1.0, whatever was given to seek(), seek_time() and seek_relative().
C23_EmittedPositionsInRange ==
    \A i \in 1..Len(signals) :
        signals[i][1] = "position_changed" => InUnitRange(signals[i][2])

\* C24: recently_played never holds more than 10 entries, and after
\* add_to_history(v) the first entry is v and no other entry has v's url.
C24_HistoryKeepsLastTen ==
    /\ Len(recently_played) <= 10
    /\ history_last[1] = "add_to_history" =>
           /\ recently_played[1] = Video(history_last[2], "now")
           /\ \A i \in 2..Len(recently_played) :
                  recently_played[i].url # history_last[2]

\* C25: fetch_transcript(video_id) with a non-empty id returns with the
\* current transcript cleared and a background fetch task started, the task
\* whose end is signalled by transcript_ready or transcript_error.
C25_FetchStartsTask ==
    (transcript_last.op = "fetch_transcript" /\ transcript_last.video_id # "") =>
        /\ current_transcript_entries = <<>>
        /\ transcript_last.raised = "None"
        /\ transcript_last.started

\* C26: load_video_positions() returns the url-to-position mapping stored
\* last: every url a position was written for by save_video_positions or
\* update_video_position is in it with its latest position, and it holds
\* nothing else.
C26_LoadReturnsStoredPositions ==
    settings_last[1] = "load_video_positions" =>
        /\ \A u \in Urls : stored[u] # 0 => u \in DOMAIN settings_last[3]
        /\ \A u \in DOMAIN settings_last[3] : settings_last[3][u] = stored[u]

\* C27: is_paused() implies is_playing() in every state PlaybackManager
\* reaches; toggle_play_pause changes is_paused exactly when playing and never
\* changes is_playing.
C27_PausedOnlyWhilePlaying ==
    [][/\ is_paused => is_playing
       /\ is_paused' => is_playing'
       /\ playback_last'[1] = "toggle_play_pause" =>
              /\ is_playing' = is_playing
              /\ (is_paused' # is_paused) <=> is_playing
      ]_vars

\* toggle_play_pause() has paused a playing manager.
C27_Witness ==
    /\ playback_last[1] = "toggle_play_pause"
    /\ is_playing
    /\ is_paused

\* C28: whenever set_stream_port returns False, stream_port, stream_url and
\* is_streaming_enabled are what they were before the call.
C28_FailedPortChangeLeavesState ==
    [][(/\ streaming_last'[1] = "set_stream_port"
        /\ streaming_last'[3] = FALSE
        /\ streamingVars' # streamingVars) =>
           UNCHANGED <<stream_port, stream_url, is_streaming_enabled>>
      ]_vars

\* C29: current_playlist_index is -1 or an index of playlist_items, it is -1
\* whenever the playlist is empty, and get_current_item() returns None
\* exactly when it is -1.
C29_IndexValidOrUnset ==
    /\ \/ current_playlist_index = -1
       \/ 0 <= current_playlist_index /\ current_playlist_index < Len(playlist_items)
    /\ playlist_items = <<>> => current_playlist_index = -1
    /\ get_current_item = NoItem <=> current_playlist_index = -1

\* set_current_index was called with an index past the end and the second of
\* two items stayed current.
C29_Witness ==
    /\ playlist_last[1] = "set_current_index"
    /\ Len(playlist_items) = 2
    /\ current_playlist_index = 1
    /\ get_current_item = playlist_items[2]

\* C30: a load_playlist() that does not end with playlist_loaded leaves
\* playlist_items and current_playlist_index as they were and emits neither
\* playlist_cleared nor playlist_loaded.
C30_FailedLoadLeavesPlaylist ==
    [][(/\ playlist_last'[1] = "load_playlist"
        /\ playlistVars' # playlistVars
        /\ \A i \in 1..Len(playlist_last'[3]) : playlist_last'[3][i] # "playlist_loaded") =>
           /\ UNCHANGED <<playlist_items, current_playlist_index>>
           /\ playlist_last'[3] = <<>>
      ]_vars

=============================================================================
